---- MODULE Spec2Model ----
(***************************************************************************)
(* Model of priv/scripts/leidenalg_detect.py: main() reads a JSON envelope *)
(* from stdin, converts its edges to (source, target, weight) tuples and   *)
(* calls detect_communities(), which maps identifiers to dense indices,    *)
(* builds an igraph Graph, calls leidenalg.find_partition and groups the   *)
(* vertices by the membership vector it returns.                           *)
(*                                                                         *)
(* leidenalg and igraph are third-party libraries the script imports; the  *)
(* script holds no algorithm body.  find_partition is modelled by what the *)
(* script can rely on: it either raises, or returns a membership vector    *)
(* over the vertex indices 0..n-1.                                         *)
(***************************************************************************)
EXTENDS Integers, Sequences, FiniteSets, TLC

\* Longest edge list of an input envelope.
MaxEdges == 2

(***************************************************************************)
(* JSON / Python values.  A value is a record [t, v]: t its type.          *)
(***************************************************************************)
Null == [t |-> "null", v |-> 0]
Num(k) == [t |-> "num", v |-> k]
\* json.load accepts Infinity and NaN: a non-finite float.
NonFinite == [t |-> "nonfinite", v |-> 0]
\* a string that is not the text of a number
Str == [t |-> "str", v |-> 0]
\* a key the envelope does not have
Absent == [t |-> "absent", v |-> 0]

\* Python truth value of a JSON value (None, 0 and 0.0 are falsy).
Truthy(x) ==
    CASE x.t = "null" -> FALSE
      [] x.t = "num" -> x.v # 0
      [] OTHER -> TRUE

\* `x or d`
PyOr(x, d) == IF Truthy(x) THEN x ELSE d

\* float(x) raises ValueError on a non-numeric string (TypeError on None).
FloatRaises(x) == x.t \in {"str", "null"}

\* float(x): a finite number keeps its value, a non-finite one stays non-finite.
PyFloat(x) ==
    CASE x.t = "num" -> Num(x.v)
      [] x.t = "nonfinite" -> NonFinite
      [] OTHER -> x

\* dict.get(key, default)
DictGetDefault(x, d) == IF x.t = "absent" THEN d ELSE x

(***************************************************************************)
(* Python dicts, as insertion-ordered lists of <<key, value>>.             *)
(***************************************************************************)
DictHas(d, k) == \E p \in 1..Len(d) : d[p][1] = k

DictGet(d, k) == d[CHOOSE p \in 1..Len(d) : d[p][1] = k][2]

DictSet(d, k, val) ==
    IF DictHas(d, k)
    THEN [p \in 1..Len(d) |-> IF d[p][1] = k THEN <<k, val>> ELSE d[p]]
    ELSE Append(d, <<k, val>>)

DictKeys(d) == {d[p][1] : p \in 1..Len(d)}

(***************************************************************************)
(* The inputs.                                                             *)
(***************************************************************************)
\* (source, target) pairs: a chain, a reversed edge and a self-loop.
EdgePairs == {<<"a", "b">>, <<"b", "c">>, <<"c", "a">>, <<"a", "a">>}

WeightVals == {Null, Num(0), Num(2), Num(-1), NonFinite, Str}

\* An edge of the envelope: a JSON array of 2 or 3 elements, or malformed.
EdgeShapes ==
    {<<p[1], p[2]>> : p \in EdgePairs}
      \cup {<<p[1], p[2], w>> : p \in EdgePairs, w \in WeightVals}
      \cup {<<"a">>, <<"a", "b", Num(2), Num(2)>>}

EdgeLists == UNION {[1..k -> EdgeShapes] : k \in 0..MaxEdges}

\* The envelope's other keys: both absent, or both given.
Settings ==
    {[n_iterations |-> Absent, resolution |-> Absent],
     [n_iterations |-> Num(0), resolution |-> Num(2)]}

\* What stdin holds: text that is not JSON, a JSON array, or a JSON object
\* (with or without the edges key).
Envelopes ==
    {[kind |-> k, edges |-> <<>>, hasEdges |-> FALSE,
      n_iterations |-> Absent, resolution |-> Absent] : k \in {"invalid", "array"}}
      \cup
    {[kind |-> "object", edges |-> es, hasEdges |-> TRUE,
      n_iterations |-> st.n_iterations, resolution |-> st.resolution] :
        es \in EdgeLists, st \in Settings}
      \cup
    {[kind |-> "object", edges |-> <<>>, hasEdges |-> FALSE,
      n_iterations |-> st.n_iterations, resolution |-> st.resolution] :
        st \in Settings}

VARIABLES
    pc,              \* position in the script
    stdin,           \* the envelope on standard input
    edges,           \* main: edges
    resolution,      \* main: resolution
    n_iterations,    \* main: n_iterations
    edge_tuples,     \* main: edge_tuples
    vertex_ids,      \* detect_communities: vertex_ids
    dc_edge_tuples,  \* detect_communities: edge_tuples
    weights,         \* detect_communities: weights
    id_to_vertex,    \* detect_communities: id_to_vertex
    graph,           \* detect_communities: g
    partition_call,  \* the arguments la.find_partition was called with
    membership,      \* partition.membership
    communities,     \* the list detect_communities returns
    stdout,          \* documents printed to stdout
    stderr,          \* documents printed to stderr
    rerun            \* results of repeated detect_communities calls

vars == <<pc, stdin, edges, resolution, n_iterations, edge_tuples, vertex_ids,
          dc_edge_tuples, weights, id_to_vertex, graph, partition_call,
          membership, communities, stdout, stderr, rerun>>

NoGraph == [built |-> FALSE, n |-> 0, edges |-> <<>>, weight |-> <<>>]

NoCall == [made |-> FALSE, weights |-> <<>>, resolution |-> Null,
           n_iterations |-> Null, seed |-> Null]

Init ==
    /\ pc = "load"
    /\ stdin \in Envelopes
    /\ edges = <<>>
    /\ resolution = Null
    /\ n_iterations = Null
    /\ edge_tuples = <<>>
    /\ vertex_ids = <<>>
    /\ dc_edge_tuples = <<>>
    /\ weights = <<>>
    /\ id_to_vertex = <<>>
    /\ graph = NoGraph
    /\ partition_call = NoCall
    /\ membership = <<>>
    /\ communities = <<>>
    /\ stdout = <<>>
    /\ stderr = <<>>
    /\ rerun = <<>>

detectVars == <<vertex_ids, dc_edge_tuples, weights, id_to_vertex, graph,
                partition_call, membership, communities>>

mainVars == <<edges, resolution, n_iterations, edge_tuples>>

\* json.load(sys.stdin); on JSONDecodeError print {"error": ...} and exit(1).
LoadJson ==
    /\ pc = "load"
    /\ IF stdin.kind = "invalid"
       THEN /\ stderr' = Append(stderr, "error_indicator")
            /\ pc' = "done"
       ELSE /\ pc' = "read"
            /\ UNCHANGED stderr
    /\ UNCHANGED <<stdin, mainVars, detectVars, stdout, rerun>>

\* input_data.get(...): a JSON array has no .get, the AttributeError is not caught.
ReadEnvelope ==
    /\ pc = "read"
    /\ IF stdin.kind = "array"
       THEN /\ stderr' = Append(stderr, "traceback")
            /\ pc' = "done"
            /\ UNCHANGED <<edges, resolution, n_iterations>>
       ELSE /\ edges' = IF stdin.hasEdges THEN stdin.edges ELSE <<>>
            /\ resolution' = DictGetDefault(stdin.resolution, Num(1))
            /\ n_iterations' = DictGetDefault(stdin.n_iterations, Num(-1))
            /\ pc' = "convert"
            /\ UNCHANGED stderr
    /\ UNCHANGED <<stdin, edge_tuples, detectVars, stdout, rerun>>

\* The weight the conversion loop reads from an edge before float(weight or 1.0).
EdgeWeight(edge) == IF Len(edge) = 2 THEN Num(1) ELSE edge[3]

\* float(weight or 1.0)
ConvertWeight(weight) == PyFloat(PyOr(weight, Num(1)))

\* One iteration of `for edge in edges`; ValueError is raised outside any try.
ConvertEdge ==
    /\ pc = "convert"
    /\ Len(edge_tuples) < Len(edges)
    /\ LET edge == edges[Len(edge_tuples) + 1]
       IN IF \/ Len(edge) \notin {2, 3}
             \/ FloatRaises(PyOr(EdgeWeight(edge), Num(1)))
          THEN /\ stderr' = Append(stderr, "traceback")
               /\ pc' = "done"
               /\ UNCHANGED edge_tuples
          ELSE /\ edge_tuples' = Append(edge_tuples,
                     <<edge[1], edge[2], ConvertWeight(EdgeWeight(edge))>>)
               /\ UNCHANGED <<pc, stderr>>
    /\ UNCHANGED <<stdin, edges, resolution, n_iterations, detectVars, stdout, rerun>>

\* Variant: `if edges is None`, which an empty list does not satisfy.
PyNotIsNone(es) == FALSE

\* `not edges`
PyNot(es) == Len(es) = 0

\* The loop is over: detect_communities(edge_tuples, ...) is called.
CallDetect ==
    /\ pc = "convert"
    /\ Len(edge_tuples) = Len(edges)
    /\ IF PyNot(edge_tuples)
       THEN /\ communities' = <<>>
            /\ pc' = "emit"
       ELSE /\ pc' = "ingest"
            /\ UNCHANGED communities
    /\ vertex_ids' = <<>>
    /\ dc_edge_tuples' = <<>>
    /\ weights' = <<>>
    /\ UNCHANGED <<stdin, mainVars, id_to_vertex, graph, partition_call,
                   membership, stdout, stderr, rerun>>

\* Variant: the assignment without its `not in vertex_ids` test.
RegisterAlways(d, x) == DictSet(d, x, Len(d))

\* `if x not in vertex_ids: vertex_ids[x] = len(vertex_ids)`
Register(d, x) == IF DictHas(d, x) THEN d ELSE DictSet(d, x, Len(d))

\* One iteration of `for source, target, weight in edges`.
IngestEdge ==
    /\ pc = "ingest"
    /\ Len(dc_edge_tuples) < Len(edge_tuples)
    /\ LET pos == Len(dc_edge_tuples) + 1
           source == edge_tuples[pos][1]
           target == edge_tuples[pos][2]
           weight == edge_tuples[pos][3]
           d1 == Register(vertex_ids, source)
           d2 == Register(d1, target)
       IN /\ vertex_ids' = d2
          /\ dc_edge_tuples' = Append(dc_edge_tuples,
                                      <<DictGet(d2, source), DictGet(d2, target)>>)
          /\ weights' = Append(weights, weight)
    /\ UNCHANGED <<pc, stdin, mainVars, id_to_vertex, graph, partition_call,
                   membership, communities, stdout, stderr, rerun>>

\* {v: k for k, v in vertex_ids.items()}
RECURSIVE Invert(_, _)
Invert(d, acc) ==
    IF d = <<>> THEN acc
    ELSE Invert(Tail(d), DictSet(acc, Head(d)[2], Head(d)[1]))

\* ig.Graph(n=len(vertex_ids), edges=edge_tuples, directed=False); g.es["weight"] = weights
BuildGraph ==
    /\ pc = "ingest"
    /\ Len(dc_edge_tuples) = Len(edge_tuples)
    /\ id_to_vertex' = Invert(vertex_ids, <<>>)
    /\ graph' = [built |-> TRUE, n |-> Len(vertex_ids),
                 edges |-> dc_edge_tuples, weight |-> weights]
    /\ pc' = "partition"
    /\ UNCHANGED <<stdin, mainVars, vertex_ids, dc_edge_tuples, weights,
                   partition_call, membership, communities, stdout, stderr, rerun>>

\* The keyword arguments of la.find_partition; no seed is among them.
FindPartitionArgs ==
    [made |-> TRUE, weights |-> weights, resolution |-> resolution,
     n_iterations |-> n_iterations, seed |-> Null]

\* The membership vectors a partition of n vertices can carry.
Memberships(n) == [1..n -> 0..(n - 1)]

\* la.find_partition returns.
FindPartition ==
    /\ pc = "partition"
    /\ partition_call' = FindPartitionArgs
    /\ membership' \in Memberships(graph.n)
    /\ pc' = "group"
    /\ UNCHANGED <<stdin, mainVars, vertex_ids, dc_edge_tuples, weights,
                   id_to_vertex, graph, communities, stdout, stderr, rerun>>

\* la.find_partition raises; main's `except Exception` prints {"error": str(e)}.
FindPartitionRaises ==
    /\ pc = "partition"
    /\ partition_call' = FindPartitionArgs
    /\ stderr' = Append(stderr, "error_indicator")
    /\ pc' = "done"
    /\ UNCHANGED <<stdin, mainVars, vertex_ids, dc_edge_tuples, weights,
                   id_to_vertex, graph, membership, communities, stdout, rerun>>

\* Variant: the list is assigned anew instead of appended to.
AddMemberOverwrite(by_id, community_id, ident) ==
    DictSet(by_id, community_id, <<ident>>)

\* communities_by_id[community_id].append(id_to_vertex[vertex_idx])
AddMember(by_id, community_id, ident) ==
    IF DictHas(by_id, community_id)
    THEN DictSet(by_id, community_id, Append(DictGet(by_id, community_id), ident))
    ELSE DictSet(by_id, community_id, <<ident>>)

\* for vertex_idx, community_id in enumerate(partition.membership)
RECURSIVE GroupLoop(_, _, _, _)
GroupLoop(m, table, vertex_idx, by_id) ==
    IF vertex_idx >= Len(m) THEN by_id
    ELSE GroupLoop(m, table, vertex_idx + 1,
                   AddMember(by_id, m[vertex_idx + 1], DictGet(table, vertex_idx)))

\* [{"level": 0, "entity_ids": entity_ids} for entity_ids in communities_by_id.values()]
FormatCommunities(by_id) ==
    [p \in 1..Len(by_id) |-> [level |-> 0, entity_ids |-> by_id[p][2]]]

GroupByCommunity(m, table) == FormatCommunities(GroupLoop(m, table, 0, <<>>))

\* Group vertices by community, format, return.
GroupVertices ==
    /\ pc = "group"
    /\ communities' = GroupByCommunity(membership, id_to_vertex)
    /\ pc' = "emit"
    /\ UNCHANGED <<stdin, mainVars, vertex_ids, dc_edge_tuples, weights,
                   id_to_vertex, graph, partition_call, membership, stdout,
                   stderr, rerun>>

\* Variant: e[:1] for e[:2], only the sources are counted.
VertexCountSources(es) == Cardinality({es[k][1] : k \in 1..Len(es)})

\* len(set(v for e in edge_tuples for v in e[:2]))
VertexCount(es) == Cardinality({es[k][p] : k \in 1..Len(es), p \in 1..2})

Stats(es, cs) ==
    [vertex_count |-> VertexCount(es), edge_count |-> Len(es),
     community_count |-> Len(cs)]

\* print(json.dumps(result))
EmitResult ==
    /\ pc = "emit"
    /\ stdout' = Append(stdout, [communities |-> communities,
                                 stats |-> Stats(edge_tuples, communities)])
    /\ pc' = "done"
    /\ UNCHANGED <<stdin, mainVars, detectVars, stderr, rerun>>

Next ==
    \/ LoadJson
    \/ ReadEnvelope
    \/ ConvertEdge
    \/ CallDetect
    \/ IngestEdge
    \/ BuildGraph
    \/ FindPartition
    \/ FindPartitionRaises
    \/ GroupVertices
    \/ EmitResult

Spec == Init /\ [][Next]_vars

\* A repeated call of detect_communities on the same arguments: the tables are
\* rebuilt from the same edges, find_partition is called again (again without a
\* seed) and its membership is grouped.
Rerun ==
    /\ pc = "done"
    /\ stdout # <<>>
    /\ partition_call.made
    /\ rerun = <<>>
    /\ \E m \in Memberships(graph.n) :
          rerun' = Append(rerun, GroupByCommunity(m, id_to_vertex))
    /\ UNCHANGED <<pc, stdin, mainVars, detectVars, stdout, stderr>>

NextRerun == Next \/ Rerun

SpecRerun == Init /\ [][NextRerun]_vars

(***************************************************************************)
(* Properties.                                                             *)
(***************************************************************************)
\* The identifiers occurring as source or target of an edge handed to
\* detect_communities.
InputIds == {edge_tuples[k][p] : k \in 1..Len(edge_tuples), p \in 1..2}

\* detect_communities has returned from a call with a non-empty edge list.
Returned == pc \in {"emit", "done"} /\ Len(membership) > 0

\* The number of places identifier x takes in the entity_ids lists of cs.
Occurrences(cs, x) ==
    LET places == UNION {{<<c, k>> : k \in 1..Len(cs[c].entity_ids)} :
                            c \in 1..Len(cs)}
    IN Cardinality({ck \in places : cs[ck[1]].entity_ids[ck[2]] = x})

\* C1: when detect_communities returns on a non-empty edge list, every
\* identifier of an input edge is in the entity_ids of exactly one community,
\* exactly once, and no entity_ids list holds an identifier that is not in the
\* input edges, whatever membership vector the partitioning step returned.
Completeness ==
    Returned =>
        /\ \A x \in InputIds : Occurrences(communities, x) = 1
        /\ \A c \in 1..Len(communities) :
              \A k \in 1..Len(communities[c].entity_ids) :
                 communities[c].entity_ids[k] \in InputIds

\* Three vertices were grouped into two communities under labels that are not
\* in first-seen order.
CompletenessWitness ==
    /\ Returned
    /\ Cardinality(InputIds) = 3
    /\ Len(communities) = 2
    /\ membership[1] # 0
    /\ membership[1] = membership[3]

\* Some edge of es carries a negative or non-finite weight.
HasInvalidWeight(es) ==
    \E k \in 1..Len(es) :
       /\ Len(es[k]) = 3
       /\ \/ es[k][3].t = "nonfinite"
          \/ es[k][3].t = "num" /\ es[k][3].v < 0

\* Every edge of es has 2 or 3 elements and no string for a weight.
WellShaped(es) ==
    \A k \in 1..Len(es) :
       /\ Len(es[k]) \in {2, 3}
       /\ Len(es[k]) = 3 => es[k][3].t # "str"

\* C3 (as claimed): an input whose edges are all well-formed in shape and type
\* but of which one carries a negative or non-finite weight never gets a graph
\* built or the partitioning called, returns no result, and ends with the
\* error indicator.
InvalidWeightRejectedFirst ==
    (stdin.kind = "object" /\ WellShaped(stdin.edges) /\ HasInvalidWeight(stdin.edges)) =>
        /\ ~graph.built
        /\ ~partition_call.made
        /\ stdout = <<>>
        /\ pc = "done" => stderr = <<"error_indicator">>

\* C4 (as claimed): a run that ends without a result has handed over exactly
\* the error indicator, and a run never hands over both.
FailureIsErrorIndicator ==
    /\ (pc = "done" /\ stdout = <<>>) => stderr = <<"error_indicator">>
    /\ stderr # <<>> => stdout = <<>>

\* C5 (as claimed): the weight handed to detect_communities for an edge is
\* 1.0 for a pair and for a null third element, and is the given number for
\* every non-negative numeric weight, 0 included.
WeightHandedOver ==
    \A k \in 1..Len(edge_tuples) :
       LET edge == edges[k]
           w == edge_tuples[k][3]
       IN /\ Len(edge) = 2 => w = Num(1)
          /\ (Len(edge) = 3 /\ edge[3].t = "null") => w = Num(1)
          /\ (Len(edge) = 3 /\ edge[3].t = "num" /\ edge[3].v >= 0) => w = edge[3]

\* The envelope is an object whose edge list is empty or absent.
EmptyInput == stdin.kind = "object" /\ stdin.edges = <<>>

\* C6: an envelope whose edge list is empty or absent never gets a graph built
\* or the partitioning called, never prints an error, and ends with the result
\* communities = [], vertex_count = 0, edge_count = 0, community_count = 0.
EmptyIsNoError ==
    EmptyInput =>
        /\ ~graph.built
        /\ ~partition_call.made
        /\ stderr = <<>>
        /\ pc = "done" =>
              stdout = <<[communities |-> <<>>,
                          stats |-> [vertex_count |-> 0, edge_count |-> 0,
                                     community_count |-> 0]]>>

\* A run on an envelope without the edges key has ended.
EmptyIsNoErrorWitness ==
    /\ EmptyInput
    /\ ~stdin.hasEdges
    /\ pc = "done"
    /\ stdout # <<>>

\* C7 (as claimed): a repeated run of detect_communities on the same arguments
\* returns the same communities, and the call of the partitioning step carries
\* an explicit seed.
RepeatedRunsAgree ==
    /\ rerun # <<>> => rerun[1] = communities
    /\ partition_call.made => partition_call.seed # Null

\* The identifiers in the first n edges handed to detect_communities.
IdsSeen(n) == {edge_tuples[k][p] : k \in 1..n, p \in 1..2}

\* The identifiers seen before the end `side` (1 source, 2 target) of edge e.
SeenBefore(e, side) ==
    IdsSeen(e - 1) \cup (IF side = 2 THEN {edge_tuples[e][1]} ELSE {})

\* C8: after any prefix of the edge list is processed, vertex_ids has one
\* entry per distinct identifier seen so far, its values are exactly 0..k-1
\* and follow first-seen order (so an index, once given, is never changed),
\* each edge_tuples entry holds the indices of its edge's ends, inside 0..n-1,
\* and once built id_to_vertex[vertex_ids[x]] = x for every identifier x.
TableIsBijection ==
    LET n == Len(dc_edge_tuples)
        k == Len(vertex_ids)
    IN /\ Cardinality(DictKeys(vertex_ids)) = k
       /\ DictKeys(vertex_ids) = IdsSeen(n)
       /\ {vertex_ids[p][2] : p \in 1..k} = 0..(k - 1)
       /\ \A e \in 1..n : \A side \in 1..2 :
             edge_tuples[e][side] \notin SeenBefore(e, side) =>
                DictGet(vertex_ids, edge_tuples[e][side])
                   = Cardinality(SeenBefore(e, side))
       /\ \A e \in 1..n :
             /\ dc_edge_tuples[e][1] = DictGet(vertex_ids, edge_tuples[e][1])
             /\ dc_edge_tuples[e][2] = DictGet(vertex_ids, edge_tuples[e][2])
             /\ dc_edge_tuples[e][1] \in 0..(k - 1)
             /\ dc_edge_tuples[e][2] \in 0..(k - 1)
       /\ graph.built =>
             /\ Len(id_to_vertex) = k
             /\ \A x \in DictKeys(vertex_ids) :
                   /\ DictHas(id_to_vertex, DictGet(vertex_ids, x))
                   /\ DictGet(id_to_vertex, DictGet(vertex_ids, x)) = x

\* The tables are complete for two edges over three identifiers, one of which
\* was seen a second time, the first-seen identifier not being the least one.
TableIsBijectionWitness ==
    /\ graph.built
    /\ Len(dc_edge_tuples) = 2
    /\ Len(vertex_ids) = 3
    /\ DictGet(vertex_ids, "c") = 0
    /\ DictGet(vertex_ids, "b") = 2

RECURSIVE SumOfLengths(_)
SumOfLengths(cs) ==
    IF cs = <<>> THEN 0 ELSE Len(Head(cs).entity_ids) + SumOfLengths(Tail(cs))

\* The distinct identifiers at the ends of the envelope's edges.
EnvelopeIds == {stdin.edges[k][p] : k \in 1..Len(stdin.edges), p \in 1..2}

\* C9: on a successful run vertex_count is the number of distinct identifiers
\* at the ends of the input edges and the sum of the lengths of the entity_ids
\* lists, edge_count is the number of input edges, community_count is the
\* number of community records, and every record has level 0 and a non-empty
\* entity_ids list.
StatsAgree ==
    (pc = "done" /\ stdout # <<>>) =>
        LET r == stdout[1]
        IN /\ Len(stdout) = 1
           /\ r.stats.vertex_count = Cardinality(EnvelopeIds)
           /\ r.stats.vertex_count = SumOfLengths(r.communities)
           /\ r.stats.edge_count = Len(stdin.edges)
           /\ r.stats.community_count = Len(r.communities)
           /\ \A c \in 1..Len(r.communities) :
                 /\ r.communities[c].level = 0
                 /\ Len(r.communities[c].entity_ids) > 0

\* A successful run over two edges and three identifiers has ended with two
\* communities.
StatsAgreeWitness ==
    /\ pc = "done"
    /\ stdout # <<>>
    /\ Len(stdin.edges) = 2
    /\ stdout[1].stats.vertex_count = 3
    /\ stdout[1].stats.community_count = 2
====
